---- MODULE Spec2Model ----
(***************************************************************************)
(* Model of src/app.py: ImageSearchApp.process_image and the three helper  *)
(* methods it calls (_get_image_description with _encode_image_to_base64,  *)
(* _generate_embedding, _query_pinecone).  The three remote services, the  *)
(* HTTP server behind an image URL, the local file system and the caller's *)
(* file-like object are the environment: each answer they give is chosen   *)
(* nondeterministically from a small set.                                  *)
(***************************************************************************)
EXTENDS Integers, Sequences, FiniteSets, TLC

\* ------------------------------------------------------------------ bounds
\* longest image payload (bytes) the environment hands out
MaxLen == 3
\* longest embedding vector the embedding service answers
MaxDim == 2
\* how many records beyond top_k the index may answer
MaxExtra == 1

\* ------------------------------------------------------- program constants
\* _query_pinecone(self, embedding, top_k=5)
top_k == 5
\* max_tokens=300 of the captioning request
max_tokens == 300

\* ------------------------------------------------------------------ values
\* Python's None and a present value, as sequences of length 0 and 1
None == <<>>
Some(v) == <<v>>
IsNone(o) == Len(o) = 0
Val(o) == o[1]

\* the result of running a piece of code: a returned value or a raised
\* exception whose str() is msg (a sequence of message parts)
Return(v) == [raised |-> FALSE, val |-> Some(v), msg |-> <<>>]
Raise(m) == [raised |-> TRUE, val |-> None, msg |-> m]

\* bytes seen in image payloads, and all payloads up to MaxLen
ByteValues == {216, 255}
RECURSIVE SeqsUpTo(_, _)
SeqsUpTo(S, n) ==
    IF n = 0 THEN {<<>>}
    ELSE LET shorter == SeqsUpTo(S, n - 1)
         IN shorter \cup {Append(s, x) : s \in {t \in shorter : Len(t) = n - 1}, x \in S}
ByteSeqs == SeqsUpTo(ByteValues, MaxLen)

\* ------------------------------------------------------------------ base64
\* the base64 alphabet; Pad is '='
B64Alphabet ==
    << "A","B","C","D","E","F","G","H","I","J","K","L","M","N","O","P",
       "Q","R","S","T","U","V","W","X","Y","Z","a","b","c","d","e","f",
       "g","h","i","j","k","l","m","n","o","p","q","r","s","t","u","v",
       "w","x","y","z","0","1","2","3","4","5","6","7","8","9","+","/" >>
Pad == "="
B64Char(i) == B64Alphabet[i + 1]

\* base64.b64encode(image_data).decode('utf-8'): 3 bytes -> 4 characters,
\* a trailing group of 1 or 2 bytes is padded with '='
RECURSIVE b64encode(_)
b64encode(data) ==
    IF Len(data) = 0 THEN <<>>
    ELSE IF Len(data) = 1 THEN
        << B64Char(data[1] \div 4), B64Char((data[1] % 4) * 16), Pad, Pad >>
    ELSE IF Len(data) = 2 THEN
        LET n == (data[1] * 256 + data[2]) * 4
        IN << B64Char(n \div 4096), B64Char((n \div 64) % 64), B64Char(n % 64), Pad >>
    ELSE
        LET n == data[1] * 65536 + data[2] * 256 + data[3]
        IN << B64Char(n \div 262144), B64Char((n \div 4096) % 64),
              B64Char((n \div 64) % 64), B64Char(n % 64) >>
           \o b64encode(SubSeq(data, 4, Len(data)))

\* ------------------------------------------------------------- image sources
\* what the caller hands to process_image: a str (a scheme and the rest of the
\* string) or a file-like object (the upload)
URLSources ==
    {[type |-> "str", scheme |-> sch, rest |-> "host/img.jpg"] : sch \in {"http://", "https://"}}
PathSource == [type |-> "str", scheme |-> "", rest |-> "photo.jpg"]
StreamSource == [type |-> "file", scheme |-> "", rest |-> "upload"]
Sources == URLSources \cup {PathSource, StreamSource}

\* isinstance(image_path, str) and image_path.startswith(('http://', 'https://'))
IsRemoteURL(src) == src.type = "str" /\ src.scheme \in {"http://", "https://"}
\* hasattr(image_path, 'read')
HasRead(src) == src.type = "file"

\* the caller's file-like object: its bytes, its read position, whether closed
Streams == {[data |-> d, pos |-> p, closed |-> c] :
               d \in ByteSeqs, p \in 0..MaxLen, c \in BOOLEAN}
NoStream == [data |-> <<>>, pos |-> 0, closed |-> FALSE]

\* ---------------------------------------------------------- the environment
\* what a GET of the URL ends in: a network failure (requests raises) or a
\* response with a status and a body
HttpOutcomes ==
    {[raised |-> TRUE, exc |-> "ConnectionError", status_code |-> 0, content |-> <<>>]}
    \cup {[raised |-> FALSE, exc |-> "", status_code |-> st, content |-> c] :
             st \in {200, 404}, c \in ByteSeqs}
\* what open(path, 'rb') and read() end in
FileOutcomes ==
    {[raised |-> TRUE, exc |-> "FileNotFoundError", status_code |-> 0, content |-> <<>>]}
    \cup {[raised |-> FALSE, exc |-> "", status_code |-> 0, content |-> c] : c \in ByteSeqs}
\* image_path.read() on the file-like object: a closed one raises, an open one
\* gives the bytes from its position to its end
StreamRead(strm) ==
    IF strm.closed
    THEN [raised |-> TRUE, exc |-> "ValueError", status_code |-> 0, content |-> <<>>]
    ELSE [raised |-> FALSE, exc |-> "", status_code |-> 0,
          content |-> SubSeq(strm.data, strm.pos + 1, Len(strm.data))]
LoaderOutcomes(src, strm) ==
    IF IsRemoteURL(src) THEN HttpOutcomes
    ELSE IF HasRead(src) THEN {StreamRead(strm)}
    ELSE FileOutcomes

\* what the captioning service answers: an error the client raises, or a
\* completion whose choices[0].message.content is the text
Descriptions == {"sunset over calm water", "rainy street at night"}
CaptionOutcomes ==
    {[raised |-> TRUE, exc |-> "APIError", choices |-> <<>>]}
    \cup {[raised |-> FALSE, exc |-> "", choices |-> <<[message |-> [content |-> d]]>>] :
             d \in Descriptions}

\* what the POST to /api/embeddings ends in: a transport failure, a body that
\* is not JSON, or a JSON object (a dict)
Vectors == SeqsUpTo({1}, MaxDim)
EmbedDicts ==
    {[k \in {"embedding"} |-> v] : v \in Vectors} \cup {[k \in {"error"} |-> <<404>>]}
EmbedOutcomes ==
    {[raised |-> TRUE, exc |-> "ConnectionError", is_json |-> FALSE, json |-> [k \in {} |-> <<>>]]}
    \cup {[raised |-> FALSE, exc |-> "", is_json |-> FALSE, json |-> [k \in {} |-> <<>>]]}
    \cup {[raised |-> FALSE, exc |-> "", is_json |-> TRUE, json |-> d] : d \in EmbedDicts}

\* what the index answers: an error the client raises, or a response whose
\* 'matches' the index chose
Scores == {1, 2}
MatchRecords == {[score |-> s, metadata |-> [song |-> "song", artist |-> "artist", link |-> "link"]] :
                    s \in Scores}
MatchSeqs == SeqsUpTo(MatchRecords, top_k + MaxExtra)
IndexOutcomes ==
    {[raised |-> TRUE, exc |-> "PineconeException", matches |-> <<>>]}
    \cup {[raised |-> FALSE, exc |-> "", matches |-> m] : m \in MatchSeqs}

\* ------------------------------------------------------------------- state
Stages == {"Loading", "Describing", "Embedding", "Matching"}

VARIABLES
    pc,             \* where process_image is: Idle (not running), a stage, Done, Failed
    image_source,   \* the caller's image source, handed to every invocation
    stream,         \* the state of the caller's file-like object
    index,          \* self.index, the handle made in __init__
    image_data,     \* _encode_image_to_base64's image_data
    base64_image,   \* _get_image_description's base64_image
    description,    \* process_image's description
    embedding,      \* process_image's embedding
    results,        \* process_image's results
    result,         \* the dict process_image returned
    error,          \* str() of the exception process_image raised
    failedAt,       \* the stage whose code raised
    calls,          \* remote calls issued in this invocation, per stage
    sent,           \* the last request each stage sent in this invocation
    received        \* what the environment answered each stage in this invocation

vars == << pc, image_source, stream, index, image_data, base64_image, description,
           embedding, results, result, error, failedAt, calls, sent, received >>

NoCalls == [s \in Stages |-> 0]
NothingSent == [s \in Stages |-> None]

\* __init__ has run; the caller holds one image source; nothing is running
Init ==
    /\ pc = "Idle"
    /\ image_source \in Sources
    /\ stream \in IF HasRead(image_source)
                  THEN {st \in Streams : st.pos <= Len(st.data)}
                  ELSE {NoStream}
    /\ index = "songs"
    /\ image_data = None
    /\ base64_image = None
    /\ description = None
    /\ embedding = None
    /\ results = None
    /\ result = None
    /\ error = None
    /\ failedAt = None
    /\ calls = NoCalls
    /\ sent = NothingSent
    /\ received = NothingSent

\* ------------------------------------------------------------ the methods
\* lines 25-35 of _encode_image_to_base64: the bytes read from the source,
\* given what the environment answers
ReadImageData(src, env) ==
    IF IsRemoteURL(src) THEN
        IF env.raised THEN Raise(<<env.exc>>) ELSE Return(env.content)
    ELSE IF HasRead(src) THEN
        IF env.raised THEN Raise(<<env.exc>>) ELSE Return(env.content)
    ELSE
        IF env.raised THEN Raise(<<env.exc>>) ELSE Return(env.content)

\* image_path.read() leaves the file-like object at its end
StreamAfterRead(src, strm) ==
    IF ~IsRemoteURL(src) /\ HasRead(src) /\ ~strm.closed
    THEN [strm EXCEPT !.pos = Len(strm.data)]
    ELSE strm

\* _encode_image_to_base64
encode_image_to_base64(src, env) ==
    LET r == ReadImageData(src, env)
    IN IF r.raised THEN r ELSE Return(b64encode(Val(r.val)))

\* the request of client.chat.completions.create
CaptionRequest(b64) ==
    [model |-> "gpt-4o",
     text |-> "Describe this image in detail ...",
     url |-> <<"data:image/jpeg;base64,">> \o b64,
     max_tokens |-> max_tokens]

\* as DescriptionExcept, the exception swallowed and an empty value returned
DescriptionExcept_Swallowed(r) ==
    IF r.raised THEN Return(<<>>) ELSE r

\* except Exception as e: raise Exception(f"Error getting image description: {str(e)}")
DescriptionExcept(r) ==
    IF r.raised THEN Raise(<<"Error getting image description: ">> \o r.msg) ELSE r

\* lines 43-64 of _get_image_description: what the captioning call gives
ChoiceContent(resp) ==
    IF resp.raised THEN Raise(<<resp.exc>>)
    ELSE Return(resp.choices[1].message.content)

\* the request of requests.post(url, json=payload)
EmbedRequest(text) ==
    [url |-> "http://{OLLAMA_HOSTED_VM_PUBLIC_IP}/api/embeddings",
     model |-> "nomic-embed-text",
     prompt |-> text]

\* as EmbeddingExcept, with the prefix of _get_image_description copied over
EmbeddingExcept_CopiedPrefix(r) ==
    IF r.raised THEN Raise(<<"Error getting image description: ">> \o r.msg) ELSE r

\* except Exception as e: raise Exception(f"Error generating embedding: {str(e)}")
EmbeddingExcept(r) ==
    IF r.raised THEN Raise(<<"Error generating embedding: ">> \o r.msg) ELSE r

\* as JsonEmbedding, reading the field with .get('embedding', [])
JsonEmbedding_Get(resp) ==
    IF resp.raised THEN Raise(<<resp.exc>>)
    ELSE IF ~resp.is_json THEN Raise(<<"JSONDecodeError">>)
    ELSE IF "embedding" \notin DOMAIN resp.json THEN Return(<<>>)
    ELSE Return(resp.json["embedding"])

\* lines 80-82 of _generate_embedding: response.json()['embedding']
JsonEmbedding(resp) ==
    IF resp.raised THEN Raise(<<resp.exc>>)
    ELSE IF ~resp.is_json THEN Raise(<<"JSONDecodeError">>)
    ELSE IF "embedding" \notin DOMAIN resp.json THEN Raise(<<"KeyError: 'embedding'">>)
    ELSE Return(resp.json["embedding"])

\* the request of self.index.query
QueryRequest(vec, k) == [vector |-> vec, top_k |-> k, include_metadata |-> TRUE]

\* as QueryExcept, an index failure answered with no matches
QueryExcept_EmptyMatches(r) ==
    IF r.raised THEN Return(<<>>) ELSE r

\* except Exception as e: raise Exception(f"Error querying Pinecone: {str(e)}")
QueryExcept(r) ==
    IF r.raised THEN Raise(<<"Error querying Pinecone: ">> \o r.msg) ELSE r

\* as ResultsMatches, the matches cut to top_k: results['matches'][:top_k]
ResultsMatches_Cut(resp) ==
    IF resp.raised THEN Raise(<<resp.exc>>)
    ELSE Return(SubSeq(resp.matches, 1, IF Len(resp.matches) < top_k THEN Len(resp.matches) ELSE top_k))

\* as ResultsMatches, the matches in reverse order
ResultsMatches_Reversed(resp) ==
    IF resp.raised THEN Raise(<<resp.exc>>)
    ELSE Return([i \in 1..Len(resp.matches) |-> resp.matches[Len(resp.matches) + 1 - i]])

\* lines 90-95 of _query_pinecone: results['matches']
ResultsMatches(resp) ==
    IF resp.raised THEN Raise(<<resp.exc>>) ELSE Return(resp.matches)

\* except Exception as e: raise Exception(f"Error processing image: {str(e)}")
ProcessExcept(r) ==
    IF r.raised THEN Raise(<<"Error processing image: ">> \o r.msg) ELSE r

\* the dict process_image returns
ResultDict(desc, matches) == [description |-> desc, matches |-> matches]

\* ---------------------------------------------------- process_image, by step
\* as NextAfter, a failed embedding request tried again
NextAfter_Retry(stage, r) ==
    IF r.raised THEN (IF stage = "Embedding" THEN "Embedding" ELSE "Failed")
    ELSE CASE stage = "Loading" -> "Describing"
           [] stage = "Describing" -> "Embedding"
           [] stage = "Embedding" -> "Matching"
           [] stage = "Matching" -> "Done"

\* where process_image goes after a stage whose code gave r: an exception
\* leaves through the except clause, a value lets the next statement run
NextAfter(stage, r) ==
    IF r.raised THEN "Failed"
    ELSE CASE stage = "Loading" -> "Describing"
           [] stage = "Describing" -> "Embedding"
           [] stage = "Embedding" -> "Matching"
           [] stage = "Matching" -> "Done"

\* what the exception leaving process_image says
ErrorAfter(stage, r) ==
    IF NextAfter(stage, r) = "Failed" THEN Some(ProcessExcept(r).msg) ELSE None
FailedAfter(stage, r) ==
    IF NextAfter(stage, r) = "Failed" THEN Some(stage) ELSE None

\* app.process_image(image_source) is called
Invoke ==
    /\ pc = "Idle"
    /\ pc' = "Loading"
    /\ UNCHANGED << image_source, stream, index, image_data, base64_image, description,
                    embedding, results, result, error, failedAt, calls, sent, received >>

\* base64_image = self._encode_image_to_base64(image_source)
Load ==
    /\ pc = "Loading"
    /\ \E env \in LoaderOutcomes(image_source, stream) :
          LET data == ReadImageData(image_source, env)
              r == DescriptionExcept(encode_image_to_base64(image_source, env))
          IN /\ stream' = StreamAfterRead(image_source, stream)
             /\ calls' = IF IsRemoteURL(image_source)
                         THEN [calls EXCEPT !["Loading"] = @ + 1] ELSE calls
             /\ sent' = IF IsRemoteURL(image_source)
                        THEN [sent EXCEPT !["Loading"] = Some(image_source)] ELSE sent
             /\ received' = [received EXCEPT !["Loading"] = Some(env)]
             /\ image_data' = IF data.raised THEN None ELSE data.val
             /\ base64_image' = IF r.raised THEN None ELSE r.val
             /\ pc' = NextAfter("Loading", r)
             /\ error' = ErrorAfter("Loading", r)
             /\ failedAt' = FailedAfter("Loading", r)
    /\ UNCHANGED << image_source, index, description, embedding, results, result >>

\* response = client.chat.completions.create(...); return ...message.content
Describe ==
    /\ pc = "Describing"
    /\ \E resp \in CaptionOutcomes :
          LET r == DescriptionExcept(ChoiceContent(resp))
          IN /\ calls' = [calls EXCEPT !["Describing"] = @ + 1]
             /\ sent' = [sent EXCEPT !["Describing"] = Some(CaptionRequest(Val(base64_image)))]
             /\ received' = [received EXCEPT !["Describing"] = Some(resp)]
             /\ description' = IF r.raised THEN None ELSE r.val
             /\ pc' = NextAfter("Describing", r)
             /\ error' = ErrorAfter("Describing", r)
             /\ failedAt' = FailedAfter("Describing", r)
    /\ UNCHANGED << image_source, stream, index, image_data, base64_image, embedding,
                    results, result >>

\* embedding = self._generate_embedding(description)
Embed ==
    /\ pc = "Embedding"
    /\ \E resp \in EmbedOutcomes :
          LET r == EmbeddingExcept(JsonEmbedding(resp))
          IN /\ calls' = [calls EXCEPT !["Embedding"] = @ + 1]
             /\ sent' = [sent EXCEPT !["Embedding"] = Some(EmbedRequest(Val(description)))]
             /\ received' = [received EXCEPT !["Embedding"] = Some(resp)]
             /\ embedding' = IF r.raised THEN None ELSE r.val
             /\ pc' = NextAfter("Embedding", r)
             /\ error' = ErrorAfter("Embedding", r)
             /\ failedAt' = FailedAfter("Embedding", r)
    /\ UNCHANGED << image_source, stream, index, image_data, base64_image, description,
                    results, result >>

\* results = self._query_pinecone(embedding); return {'description': ..., 'matches': ...}
Query ==
    /\ pc = "Matching"
    /\ \E resp \in IndexOutcomes :
          LET r == QueryExcept(ResultsMatches(resp))
          IN /\ calls' = [calls EXCEPT !["Matching"] = @ + 1]
             /\ sent' = [sent EXCEPT !["Matching"] = Some(QueryRequest(Val(embedding), top_k))]
             /\ received' = [received EXCEPT !["Matching"] = Some(resp)]
             /\ results' = IF r.raised THEN None ELSE r.val
             /\ result' = IF NextAfter("Matching", r) = "Done"
                          THEN Some(ResultDict(Val(description), Val(r.val))) ELSE None
             /\ pc' = NextAfter("Matching", r)
             /\ error' = ErrorAfter("Matching", r)
             /\ failedAt' = FailedAfter("Matching", r)
    /\ UNCHANGED << image_source, stream, index, image_data, base64_image, description,
                    embedding >>

\* the call is over: its locals are gone, the caller has the dict or the exception
CallEnds ==
    /\ pc \in {"Done", "Failed"}
    /\ pc' = "Idle"
    /\ image_data' = None
    /\ base64_image' = None
    /\ description' = None
    /\ embedding' = None
    /\ results' = None
    /\ result' = None
    /\ error' = None
    /\ failedAt' = None
    /\ calls' = NoCalls
    /\ sent' = NothingSent
    /\ received' = NothingSent
    /\ UNCHANGED << image_source, stream, index >>

Next == Invoke \/ Load \/ Describe \/ Embed \/ Query \/ CallEnds

Spec == Init /\ [][Next]_vars

\* --------------------------------------------------- reading the environment
\* the environment has answered stage s in this invocation
Answered(s) == ~IsNone(received[s])

\* the answer the environment gave stage s is one the stage can use
AnswerUsable(s) ==
    /\ Answered(s)
    /\ ~Val(received[s]).raised
    /\ s = "Embedding" =>
          /\ Val(received[s]).is_json
          /\ "embedding" \in DOMAIN Val(received[s]).json

\* the answer the environment gave stage s makes the stage fail
AnswerFails(s) == Answered(s) /\ ~AnswerUsable(s)

StageNo(s) ==
    CASE s = "Loading" -> 1 [] s = "Describing" -> 2 [] s = "Embedding" -> 3 [] s = "Matching" -> 4

SortedDesc(m) == \A i \in 1..(Len(m) - 1) : m[i].score >= m[i + 1].score

\* ------------------------------------------------------------------- claims

\* C1: the stages run strictly forward, Idle -> Loading -> Describing ->
\* Embedding -> Matching -> Done; a stage is entered only when every stage
\* before it got a usable answer; no stage is skipped or re-entered; Done is
\* entered only from Matching; Failed is entered only from one of the four
\* stages and left only when the call is over.
ForwardEdges ==
    { <<"Idle", "Loading">>, <<"Loading", "Describing">>, <<"Describing", "Embedding">>,
      <<"Embedding", "Matching">>, <<"Matching", "Done">> }
FailEdges == { <<s, "Failed">> : s \in Stages }
CallOverEdges == { <<"Done", "Idle">>, <<"Failed", "Idle">> }
EarlierUsable ==
    \A s \in Stages :
        (pc \in Stages \cup {"Done"} /\ (pc = "Done" \/ StageNo(s) < StageNo(pc)))
            => AnswerUsable(s)
C1_StrictlyForward ==
    [][ /\ <<pc, pc'>> \in ForwardEdges \cup FailEdges \cup CallOverEdges
        /\ EarlierUsable' ]_vars
C1_FailedFromMatching ==
    /\ pc = "Failed"
    /\ failedAt = Some("Matching")
    /\ \A s \in {"Loading", "Describing", "Embedding"} : AnswerUsable(s)

\* C2: when the answer to any one stage makes it fail, the invocation ends
\* in an error and no dict is returned; a dict is returned only when all four
\* stages got a usable answer, and then it holds the matches of the index.
C2_NoPartialResult ==
    /\ (\E s \in Stages : AnswerFails(s)) =>
          /\ pc = "Failed"
          /\ IsNone(result)
          /\ ~IsNone(error)
    /\ ~IsNone(result) =>
          /\ pc = "Done"
          /\ \A s \in Stages : AnswerUsable(s)
          /\ IsNone(error)
          /\ Val(result).matches = Val(received["Matching"]).matches
C2_FailedWithDescription ==
    /\ pc = "Failed"
    /\ ~IsNone(description)
    /\ AnswerFails("Matching")
    /\ IsNone(result)

\* the stage an error message names: the prefix its method's except clause
\* puts before the cause
StageNamed(msg) ==
    CASE msg[2] = "Error getting image description: " -> "Describing"
      [] msg[2] = "Error generating embedding: " -> "Embedding"
      [] msg[2] = "Error querying Pinecone: " -> "Matching"
      [] OTHER -> "Loading"

\* the underlying cause of the failure of stage s, from the environment's answer
CauseOf(s) ==
    LET a == Val(received[s])
    IN IF a.raised THEN a.exc
       ELSE IF ~a.is_json THEN "JSONDecodeError"
       ELSE "KeyError: 'embedding'"

PrefixOf(s) ==
    CASE s = "Loading" -> "Error getting image description: "
      [] s = "Describing" -> "Error getting image description: "
      [] s = "Embedding" -> "Error generating embedding: "
      [] s = "Matching" -> "Error querying Pinecone: "
GetFailed ==
    /\ IsRemoteURL(image_source)
    /\ Answered("Loading")
    /\ \/ Val(received["Loading"]).raised
       \/ Val(received["Loading"]).status_code \notin 200..299
C4_NoCaptionAfterFailedGet ==
    GetFailed => calls["Describing"] = 0 /\ IsNone(sent["Describing"])

\* C5 (as claimed): whatever the source, the bytes handed to the captioning
\* request are not empty.
C5_NoEmptyPayload ==
    ~IsNone(sent["Describing"]) =>
        /\ ~IsNone(image_data)
        /\ Len(Val(image_data)) > 0
        /\ Val(sent["Describing"]).url # <<"data:image/jpeg;base64,">>

\* C6: within one invocation each remote call is issued at most once, and no
\* remote call of a stage after the failing one is issued.
C6_AtMostOnceNoRetry ==
    /\ \A s \in Stages : calls[s] <= 1
    /\ \A s \in Stages : IsNone(sent[s]) <=> calls[s] = 0
    /\ ~IsNone(failedAt) =>
          /\ pc = "Failed"
          /\ \A s \in Stages : StageNo(s) > StageNo(Val(failedAt)) => calls[s] = 0
    /\ \A s, t \in Stages : (AnswerFails(s) /\ StageNo(t) > StageNo(s)) => calls[t] = 0
C6_FailedAfterOneEmbedCall ==
    /\ pc = "Failed"
    /\ failedAt = Some("Embedding")
    /\ calls["Embedding"] = 1
    /\ calls["Describing"] = 1
    /\ calls["Matching"] = 0

\* C7 (as claimed): the sequence _query_pinecone returns has at most top_k
\* entries and is ordered descending by score, whatever the index answers.
C7_AtMostTopKSorted ==
    ~IsNone(results) => Len(Val(results)) <= top_k /\ SortedDesc(Val(results))

\* C7 (amended): the sequence _query_pinecone returns is the 'matches' of the
\* index's answer as they are; it has at most top_k entries when the index
\* answered at most top_k, and is ordered descending by score when the
\* index's answer is.
C7_AsTheIndexAnswers ==
    ~IsNone(results) =>
        LET m == Val(received["Matching"]).matches
        IN /\ Val(results) = m
           /\ Len(m) <= top_k => Len(Val(results)) <= top_k
           /\ SortedDesc(m) => SortedDesc(Val(results))
C7_UnsortedAnswerReturned ==
    /\ ~IsNone(results)
    /\ ~SortedDesc(Val(results))
    /\ Len(Val(results)) = 3

\* C8: when all stages succeed, the text sent to the Embedder is the
\* Descriptor's output, the vector sent to the index is the Embedder's output
\* with top_k = 5, and the dict returned holds the Descriptor's output and the
\* index's records in the index's order, none added, dropped or reordered.
C8_PassThrough ==
    pc = "Done" =>
        LET text == Val(received["Describing"]).choices[1].message.content
            vec == Val(received["Embedding"]).json["embedding"]
            m == Val(received["Matching"]).matches
        IN /\ Val(sent["Describing"]).url =
                  <<"data:image/jpeg;base64,">> \o b64encode(Val(received["Loading"]).content)
           /\ Val(sent["Embedding"]).prompt = text
           /\ Val(sent["Matching"]).vector = vec
           /\ Val(sent["Matching"]).top_k = 5
           /\ Val(sent["Matching"]).include_metadata
           /\ result = Some([description |-> text, matches |-> m])
C8_TwoRecordsForTopK ==
    /\ pc = "Done"
    /\ Len(Val(received["Matching"]).matches) = 2
    /\ Len(Val(result).matches) = 2
    /\ Len(Val(sent["Matching"]).vector) = 2

\* C9 (as claimed): an invocation leaves the caller's image source as it was,
\* so that a later invocation reads from it what a first one would.
C9_SourceLeftUnchanged ==
    [][ image_source' = image_source /\ stream' = stream /\ index' = index ]_vars

\* C10: when the embedding service's answer is not JSON or lacks the
\* 'embedding' field, the invocation fails with an embedding error, the index
\* is not queried and no dict is returned.
EmbedMalformed ==
    /\ Answered("Embedding")
    /\ ~Val(received["Embedding"]).raised
    /\ \/ ~Val(received["Embedding"]).is_json
       \/ "embedding" \notin DOMAIN Val(received["Embedding"]).json
C10_MalformedEmbeddingFails ==
    EmbedMalformed =>
        /\ pc = "Failed"
        /\ failedAt = Some("Embedding")
        /\ Val(error)[2] = "Error generating embedding: "
        /\ IsNone(embedding)
        /\ calls["Matching"] = 0
        /\ IsNone(sent["Matching"])
        /\ IsNone(result)
C10_ErrorReplyFailed ==
    /\ EmbedMalformed
    /\ Val(received["Embedding"]).is_json
    /\ pc = "Failed"

====
